---- MODULE Spec2Model ----
(***************************************************************************)
(* wav-files-trim: a model of src/main.rs.                                 *)
(*                                                                         *)
(* Two specifications share the module:                                    *)
(*   SpecTrim  the pure functions rms and trim_samples, applied to bounded *)
(*             inputs (a sample sequence, a threshold, a window size);     *)
(*   Spec      the batch driver main with the per-file pipeline trim_wav.  *)
(*                                                                         *)
(* Numbers.  rms returns sqrt(sum_sq / len) and trim_samples compares it   *)
(* with threshold_rms = 10^(threshold_db/20) * 32768.  Both sides are      *)
(* non-negative, so the comparison is decided exactly by the squares,      *)
(* which are rationals; a rational is a pair <<numerator, denominator>>.   *)
(* threshold_db is counted in units of 20*log10(2) dB (about 6.02 dB), so  *)
(* threshold_db = -a stands for about -6.02*a dB and                       *)
(* threshold_rms = 2^(15 - a).                                             *)
(***************************************************************************)
EXTENDS Integers, Sequences, FiniteSets, TLC

\* ------------------------------------------------------------------ bounds
MaxLen == 6
MaxWin == 5
MaxAtten == 15
MaxEntries == 3

\* 32768.0 = 2^15 (full_scale)
FullScaleLog2 == 15
\* the window trim_wav passes to trim_samples
WavWindow == 800

SampleValues == {0, 3, -5}
WindowSizes == 1..MaxWin
\* 2^(15 - a) for a from 12 (threshold_rms = 8) up to MaxAtten
Thresholds == {-a : a \in (FullScaleLog2 - 3)..MaxAtten}

RECURSIVE SeqsUpTo(_)
SeqsUpTo(n) ==
    IF n = 0 THEN {<<>>}
    ELSE LET shorter == SeqsUpTo(n - 1)
         IN shorter \cup {Append(s, v) : s \in {t \in shorter : Len(t) = n - 1}, v \in SampleValues}

SampleSeqs == SeqsUpTo(MaxLen)

VARIABLES
    samples,        \* trim_samples: the input slice
    threshold_db,   \* trim_samples / Args::threshold, in units of 20*log10(2) dB
    window_size,    \* trim_samples: window_size
    trimmed,        \* the Vec trim_samples returned
    retrimmed,      \* the Vec trim_samples returned when applied to `trimmed`
    phase,          \* "input" -> "trimmed" -> "retrimmed"
    pc,             \* main: "start", "walk", "done" (Ok) or "failed" (Err returned)
    remaining,      \* main: entries the WalkDir iterator has still to yield
    processed,      \* main: the counter `processed`
    visited,        \* history: one record per entry the loop body has handled
    outputs,        \* output tree: output path -> what WavWriter left there
    stderr,         \* lines written by eprintln!
    stdout          \* lines written by println!

trimVars == <<samples, threshold_db, window_size, trimmed, retrimmed, phase>>
mainVars == <<pc, remaining, processed, visited, outputs, stderr, stdout>>
vars == <<samples, threshold_db, window_size, trimmed, retrimmed, phase,
          pc, remaining, processed, visited, outputs, stderr, stdout>>

\* ------------------------------------------------------------ arithmetic
RECURSIVE Pow(_, _)
Pow(b, e) == IF e = 0 THEN 1 ELSE b * Pow(b, e - 1)

Min(S) == CHOOSE x \in S : \A y \in S : x <= y
Max(S) == CHOOSE x \in S : \A y \in S : x >= y

\* a > b for rationals with positive denominators
RatGreater(a, b) == a[1] * b[2] > b[1] * a[2]

\* samples[from..to] of Rust (0-based, `to` excluded)
Slice(s, from, to) == SubSeq(s, from + 1, to)

\* ------------------------------------------------------------------- rms
RECURSIVE sum_sq(_)
sum_sq(chunk) ==
    IF Len(chunk) = 0 THEN 0
    ELSE Head(chunk) * Head(chunk) + sum_sq(Tail(chunk))

\* "forgot powi(2)": the mean of the samples instead of the mean of the squares
RECURSIVE sum_plain(_)
sum_plain(chunk) ==
    IF Len(chunk) = 0 THEN 0
    ELSE Head(chunk) + sum_plain(Tail(chunk))

rms_sq_NoSquare(chunk) ==
    IF Len(chunk) = 0 THEN <<0, 1>>
    ELSE <<sum_plain(chunk), Len(chunk)>>

\* rms(chunk)^2: 0 for the empty chunk, else sum_sq / len
rms_sq(chunk) ==
    IF Len(chunk) = 0 THEN <<0, 1>>
    ELSE <<sum_sq(chunk), Len(chunk)>>

\* threshold_rms^2 = (10^(threshold_db/20) * 32768)^2 = 4^(15 + threshold_db)
threshold_rms_sq(db) ==
    IF FullScaleLog2 + db >= 0
    THEN <<Pow(4, FullScaleLog2 + db), 1>>
    ELSE <<1, Pow(4, -(FullScaleLog2 + db))>>

\* inverted comparison: chunk_rms < threshold_rms
IsLoud_Inverted(chunk, db) == RatGreater(threshold_rms_sq(db), rms_sq(chunk))

\* chunk_rms > threshold_rms
IsLoud(chunk, db) == RatGreater(rms_sq(chunk), threshold_rms_sq(db))

\* ---------------------------------------------------------- trim_samples
\* (0..len).step_by(window_size)
forward_grid(len, w) == {i \in 0..(len - 1) : i % w = 0}

\* slip: (0..=len).step_by(window_size).rev(), the forward grid walked backwards
backward_grid_StepThenRev(len, w) == {i \in 0..len : i % w = 0}

\* (0..=len).rev().step_by(window_size)
backward_grid(len, w) == {i \in 0..len : (len - i) % w = 0}

\* the chunk the forward scan examines at i: samples[i..min(i + w, len)]
forward_chunk(s, w, i) ==
    LET chunk_end == IF i + w < Len(s) THEN i + w ELSE Len(s)
    IN Slice(s, i, chunk_end)

\* the chunk the backward scan examines at i: samples[i.saturating_sub(w)..i]
backward_chunk(s, w, i) ==
    LET chunk_start == IF i - w > 0 THEN i - w ELSE 0
    IN Slice(s, chunk_start, i)

\* the forward-scan positions whose window has RMS above the threshold
loud_forward(s, db, w) ==
    {i \in forward_grid(Len(s), w) : IsLoud(forward_chunk(s, w, i), db)}

\* the backward-scan positions whose window has RMS above the threshold
loud_backward(s, db, w) ==
    {i \in backward_grid(Len(s), w) : IsLoud(backward_chunk(s, w, i), db)}

\* slip: start_trim initialised to 0 instead of len
start_trim_DefaultZero(s, db, w) ==
    LET loud == loud_forward(s, db, w)
    IN IF loud = {} THEN 0 ELSE Min(loud)

\* let mut start_trim = len; the first i of the scan that qualifies replaces it
start_trim(s, db, w) ==
    LET loud == loud_forward(s, db, w)
    IN IF loud = {} THEN Len(s) ELSE Min(loud)

\* slip: end_trim = chunk_start instead of end_trim = i
end_trim_ChunkStart(s, db, w) ==
    LET loud == loud_backward(s, db, w)
    IN IF loud = {} THEN 0
       ELSE IF Max(loud) - w > 0 THEN Max(loud) - w ELSE 0

\* let mut end_trim = 0; the first i of the reversed scan that qualifies replaces it
end_trim(s, db, w) ==
    LET loud == loud_backward(s, db, w)
    IN IF loud = {} THEN 0 ELSE Max(loud)

\* slip: the input is returned untouched when no range was found
trim_samples_KeepAll(s, db, w) ==
    IF Len(s) = 0 THEN <<>>
    ELSE LET start == start_trim(s, db, w)
             end == end_trim(s, db, w)
         IN IF start < end THEN Slice(s, start, end) ELSE s

trim_samples(s, db, w) ==
    IF Len(s) = 0 THEN <<>>
    ELSE LET start == start_trim(s, db, w)
             end == end_trim(s, db, w)
         IN IF start < end THEN Slice(s, start, end) ELSE <<>>

\* --------------------------------------------------------------- SpecTrim
InitMainIdle ==
    /\ pc = "start"
    /\ remaining = 0
    /\ processed = 0
    /\ visited = <<>>
    /\ outputs = <<>>
    /\ stderr = <<>>
    /\ stdout = <<>>

InitTrim ==
    /\ samples \in SampleSeqs
    /\ threshold_db \in Thresholds
    /\ window_size \in WindowSizes
    /\ trimmed = <<>>
    /\ retrimmed = <<>>
    /\ phase = "input"
    /\ InitMainIdle

CallTrim ==
    /\ phase = "input"
    /\ trimmed' = trim_samples(samples, threshold_db, window_size)
    /\ phase' = "trimmed"
    /\ UNCHANGED <<samples, threshold_db, window_size, retrimmed>>
    /\ UNCHANGED mainVars

CallTrimAgain ==
    /\ phase = "trimmed"
    /\ retrimmed' = trim_samples(trimmed, threshold_db, window_size)
    /\ phase' = "retrimmed"
    /\ UNCHANGED <<samples, threshold_db, window_size, trimmed>>
    /\ UNCHANGED mainVars

NextTrim == CallTrim \/ CallTrimAgain

SpecTrim == InitTrim /\ [][NextTrim]_vars

\* ------------------------------------------------------ the file system
\* A path is a sequence of components.
input_dir == <<"in">>
output_dir == <<"out">>

\* what WalkDir can yield below input_dir, relative to it
RelPaths == {<<"a.wav">>, <<"sub", "b.wav">>, <<"c.WAV">>, <<"notes.txt">>}

\* Path::extension of the last component
extension(path) ==
    LET name == path[Len(path)]
    IN CASE name \in {"a.wav", "b.wav"} -> "wav"
         [] name = "c.WAV" -> "WAV"
         [] name = "notes.txt" -> "txt"
         [] OTHER -> "none"

\* Path::strip_prefix: the rest of the path, or an error when base is no prefix
strip_prefix(path, base) ==
    IF Len(base) <= Len(path) /\ SubSeq(path, 1, Len(base)) = base
    THEN [ok |-> TRUE, rel |-> SubSeq(path, Len(base) + 1, Len(path))]
    ELSE [ok |-> FALSE, rel |-> <<>>]

\* Path::parent: the path without its last component
parent(path) == SubSeq(path, 1, Len(path) - 1)

\* the format descriptor trim_wav accepts, and one mismatch per field
GoodSpec == [channels |-> 1, sample_rate |-> 16000, bits_per_sample |-> 16,
             sample_format |-> "Int"]
WavSpecs == {GoodSpec,
             [GoodSpec EXCEPT !.channels = 2],
             [GoodSpec EXCEPT !.sample_rate = 8000],
             [GoodSpec EXCEPT !.bits_per_sample = 8],
             [GoodSpec EXCEPT !.sample_format = "Float"]}

\* what an input file can hold: whether WavReader::open succeeds, its header,
\* whether every sample decodes, and the samples
FileData == {<<>>, <<0, 0>>, <<0, -5, 3>>}
WavFiles ==
    {[opens |-> FALSE, spec |-> GoodSpec, readable |-> FALSE, data |-> <<>>]}
    \cup {[opens |-> TRUE, spec |-> sp, readable |-> TRUE, data |-> <<0, -5, 3>>] :
              sp \in WavSpecs \ {GoodSpec}}
    \cup {[opens |-> TRUE, spec |-> GoodSpec, readable |-> FALSE, data |-> <<0, -5, 3>>]}
    \cup {[opens |-> TRUE, spec |-> GoodSpec, readable |-> TRUE, data |-> d] : d \in FileData}

\* what the output tree can refuse while one entry is handled; the parent of
\* a destination directly under output_dir is the root main has just created,
\* so create_dir_all can fail only for a destination in a subdirectory
Faults == {"none", "mkdir", "create", "write", "finalize"}

\* ---------------------------------------------------------------- trim_wav
spec_ok(sp) ==
    ~( \/ sp.channels # 1
       \/ sp.sample_rate # 16000
       \/ sp.bits_per_sample # 16
       \/ sp.sample_format # "Int" )

\* what a call of trim_wav returns and what it leaves at output_path:
\* err is "none" for Ok(()); created says WavWriter::create made (or truncated)
\* the destination; finalized says the header was completed
Outcome(err, created, finalized, data) ==
    [err |-> err, created |-> created, finalized |-> finalized, data |-> data]

\* slip: the destination is created before the format is validated
trim_wav_CreateFirst(file, fault, db) ==
    IF ~file.opens
    THEN Outcome("Failed to open input WAV file", FALSE, FALSE, <<>>)
    ELSE IF fault = "create"
    THEN Outcome("Failed to create output WAV file", FALSE, FALSE, <<>>)
    ELSE IF ~spec_ok(file.spec)
    THEN Outcome("Unsupported WAV format: expected mono 16-bit PCM at 16kHz",
                 TRUE, FALSE, <<>>)
    ELSE IF ~file.readable
    THEN Outcome("Failed to read samples", TRUE, FALSE, <<>>)
    ELSE LET trimmed_samples == trim_samples(file.data, db, WavWindow)
         IN IF fault = "write" /\ Len(trimmed_samples) > 0
            THEN Outcome("Failed to write sample", TRUE, FALSE, <<>>)
            ELSE IF fault = "finalize"
            THEN Outcome("Failed to finalize WAV writer", TRUE, FALSE, trimmed_samples)
            ELSE Outcome("none", TRUE, TRUE, trimmed_samples)

\* a write fault is taken at the first write_sample; with nothing to write
\* no write_sample is called and the fault cannot show
trim_wav(file, fault, db) ==
    IF ~file.opens
    THEN Outcome("Failed to open input WAV file", FALSE, FALSE, <<>>)
    ELSE IF ~spec_ok(file.spec)
    THEN Outcome("Unsupported WAV format: expected mono 16-bit PCM at 16kHz",
                 FALSE, FALSE, <<>>)
    ELSE IF ~file.readable
    THEN Outcome("Failed to read samples", FALSE, FALSE, <<>>)
    ELSE LET trimmed_samples == trim_samples(file.data, db, WavWindow)
         IN IF fault = "create"
            THEN Outcome("Failed to create output WAV file", FALSE, FALSE, <<>>)
            ELSE IF fault = "write" /\ Len(trimmed_samples) > 0
            THEN Outcome("Failed to write sample", TRUE, FALSE, <<>>)
            ELSE IF fault = "finalize"
            THEN Outcome("Failed to finalize WAV writer", TRUE, FALSE, trimmed_samples)
            ELSE Outcome("none", TRUE, TRUE, trimmed_samples)

\* -------------------------------------------------------------------- main
\* the entry passes the filter of the loop body
selected(file_type, path) == file_type = "file" /\ extension(path) = "wav"

\* slip: every selected file is counted, whatever trim_wav returned
count_after_CountAll(count, out) == count + 1

\* if let Err(e) = trim_wav(..) { eprintln!(..) } else { processed += 1 }
count_after(count, out) == IF out.err = "none" THEN count + 1 ELSE count

VisitedPaths == {visited[k].path : k \in 1..Len(visited)}

InitTrimIdle ==
    /\ samples = <<>>
    /\ window_size = WavWindow
    /\ trimmed = <<>>
    /\ retrimmed = <<>>
    /\ phase = "idle"

Init ==
    /\ threshold_db \in Thresholds
    /\ InitTrimIdle
    /\ InitMainIdle

\* main up to the loop: the input directory must exist and the output root
\* must be creatable, else main returns the error
Start ==
    /\ pc = "start"
    /\ \E input_exists \in BOOLEAN, output_root_ok \in BOOLEAN, n \in 0..MaxEntries :
         IF ~input_exists
         THEN /\ pc' = "failed"
              /\ stderr' = Append(stderr, <<"Error", "Input directory does not exist">>)
              /\ UNCHANGED remaining
         ELSE IF ~output_root_ok
         THEN /\ pc' = "failed"
              /\ stderr' = Append(stderr, <<"Error", "Failed to create output directory">>)
              /\ UNCHANGED remaining
         ELSE /\ pc' = "walk"
              /\ remaining' = n
              /\ UNCHANGED stderr
    /\ UNCHANGED <<processed, visited, outputs, stdout>>
    /\ UNCHANGED trimVars

\* one iteration of the for loop over the entries WalkDir yields
VisitEntry ==
    /\ pc = "walk"
    /\ remaining > 0
    /\ \E rel \in RelPaths, file_type \in {"file", "dir"}, file \in WavFiles,
          fault \in Faults :
         LET path == input_dir \o rel
             stripped == strip_prefix(path, input_dir)
             output_path == output_dir \o stripped.rel
             out == trim_wav(file, fault, threshold_db)
             entry == [path |-> path, output_path |-> output_path,
                       selected |-> selected(file_type, path)]
         IN /\ path \notin VisitedPaths
            /\ remaining' = remaining - 1
            /\ IF ~selected(file_type, path)
               THEN /\ visited' = Append(visited, entry @@ [result |-> "skipped",
                                             opened |-> FALSE, valid |-> FALSE,
                                             decoded |-> FALSE])
                    /\ UNCHANGED <<pc, processed, outputs, stderr>>
               ELSE IF ~stripped.ok
               THEN /\ pc' = "failed"
                    /\ stderr' = Append(stderr, <<"Error", "Failed to compute relative path">>)
                    /\ visited' = Append(visited, entry @@ [result |-> "fatal",
                                             opened |-> FALSE, valid |-> FALSE,
                                             decoded |-> FALSE])
                    /\ UNCHANGED <<processed, outputs>>
               ELSE IF fault = "mkdir" /\ parent(output_path) # output_dir
               THEN /\ pc' = "failed"
                    /\ stderr' = Append(stderr, <<"Error", "Failed to create output subdirectory">>)
                    /\ visited' = Append(visited, entry @@ [result |-> "fatal",
                                             opened |-> FALSE, valid |-> FALSE,
                                             decoded |-> FALSE])
                    /\ UNCHANGED <<processed, outputs>>
               ELSE /\ visited' = Append(visited, entry @@
                                     [result |-> IF out.err = "none" THEN "ok" ELSE "error",
                                      opened |-> file.opens,
                                      valid |-> file.opens /\ spec_ok(file.spec),
                                      decoded |-> file.opens /\ spec_ok(file.spec)
                                                     /\ file.readable])
                    /\ processed' = count_after(processed, out)
                    /\ stderr' = IF out.err = "none" THEN stderr
                                 ELSE Append(stderr, <<"Error processing", path, out.err>>)
                    /\ outputs' = IF out.created
                                  THEN (output_path :> [finalized |-> out.finalized,
                                                        data |-> out.data]) @@ outputs
                                  ELSE outputs
                    /\ UNCHANGED pc
    /\ UNCHANGED stdout
    /\ UNCHANGED trimVars

\* after the loop: println!("Processed {} WAV files.", processed); Ok(())
Report ==
    /\ pc = "walk"
    /\ remaining = 0
    /\ stdout' = Append(stdout, <<"Processed", processed, "WAV files.">>)
    /\ pc' = "done"
    /\ UNCHANGED <<remaining, processed, visited, outputs, stderr>>
    /\ UNCHANGED trimVars

Next == Start \/ VisitEntry \/ Report

Spec == Init /\ [][Next]_vars

\* ------------------------------------------------------- claims on main
StartupErrors == {"Input directory does not exist", "Failed to create output directory"}

Reported(path) ==
    \E k \in 1..Len(stderr) : stderr[k][1] = "Error processing" /\ stderr[k][2] = path

\* C2: once the input directory exists and the output root was created, no
\* failure met while handling a file ends the run: each is reported on the
\* error stream and the walk goes on to the final report.
C2_PerFileFailuresNeverAbort ==
    /\ pc = "failed" => stderr[Len(stderr)][2] \in StartupErrors
    /\ \A k \in 1..Len(visited) :
           visited[k].selected =>
               /\ visited[k].result \in {"ok", "error"}
               /\ visited[k].result = "error" => Reported(visited[k].path)

SuccessCount ==
    Cardinality({k \in 1..Len(visited) :
                    visited[k].selected /\ visited[k].result = "ok"})

\* C4: the counter always equals the number of selected files whose trim_wav
\* succeeded, a step adds at most one to it and never lowers it, and the
\* final report prints that number.
C4_ProcessedCountsSuccesses ==
    /\ [](processed = SuccessCount)
    /\ [](pc = "done" => stdout = << <<"Processed", SuccessCount, "WAV files.">> >>)
    /\ [][processed' \in {processed, processed + 1}]_vars

C4_Witness ==
    /\ pc = "done"
    /\ processed = 1
    /\ stdout = << <<"Processed", 1, "WAV files.">> >>
    /\ \E k \in 1..Len(visited) : visited[k].result = "error"
    /\ \E k \in 1..Len(visited) : visited[k].result = "skipped"
    /\ \E k \in 1..Len(visited) : visited[k].result = "ok"

\* C5: a file whose format descriptor mismatches leaves nothing at its
\* mirrored output path, and every output file belongs to an input file that
\* passed validation and was fully decoded.
C5_NoOutputForRejectedFormat ==
    /\ \A k \in 1..Len(visited) :
           (visited[k].opened /\ ~visited[k].valid) =>
               /\ visited[k].result = "error"
               /\ visited[k].output_path \notin DOMAIN outputs
    /\ \A p \in DOMAIN outputs :
           \E k \in 1..Len(visited) :
               visited[k].output_path = p /\ visited[k].decoded

C5_Witness ==
    /\ pc = "done"
    /\ \E k \in 1..Len(visited) :
           /\ visited[k].opened
           /\ ~visited[k].valid
           /\ visited[k].output_path \notin DOMAIN outputs
           /\ Reported(visited[k].path)
    /\ \E k \in 1..Len(visited) :
           /\ visited[k].decoded
           /\ visited[k].output_path \in DOMAIN outputs

\* ------------------------------------------------- claims on trim_samples
Zeros(n) == [k \in 1..n |-> 0]
Const(v, n) == [k \in 1..n |-> v]

\* |v| > threshold_rms
AboveThreshold(v, db) == RatGreater(<<v * v, 1>>, threshold_rms_sq(db))

AllAbove(s, db) == \A k \in 1..Len(s) : AboveThreshold(s[k], db)
AllZero(s) == \A k \in 1..Len(s) : s[k] = 0

\* C1: N zeros, then M samples of one value v with |v| above the linear
\* threshold, then N zeros, with window_size dividing N and M: trim_samples
\* returns exactly the M loud samples.
C1_SilenceSignalSilence ==
    phase # "input" =>
        \A n \in 0..MaxLen, m \in 0..MaxLen, v \in SampleValues :
            ( /\ n % window_size = 0
              /\ m % window_size = 0
              /\ Len(samples) = n + m + n
              /\ AboveThreshold(v, threshold_db)
              /\ samples = Zeros(n) \o Const(v, m) \o Zeros(n) )
            => trimmed = Const(v, m)

C1_Witness ==
    /\ phase = "trimmed"
    /\ window_size = 2
    /\ samples = <<0, 0, -5, -5, 0, 0>>
    /\ AboveThreshold(-5, threshold_db)
    /\ trimmed = <<-5, -5>>

\* C3 as stated: trimming a trimmed result returns it unchanged, for every
\* input, threshold and window size.
C3_IdempotentAlways ==
    phase = "retrimmed" => retrimmed = trimmed

\* C3 amended: the second application returns the first result unchanged
\* whenever that result is empty or at least window_size long, or window_size
\* divides the input length; in every case it returns either the first result
\* or the empty sequence.
C3_IdempotentUnlessShort ==
    phase = "retrimmed" =>
        /\ ( \/ Len(trimmed) = 0
             \/ Len(trimmed) >= window_size
             \/ Len(samples) % window_size = 0 ) => retrimmed = trimmed
        /\ retrimmed \in {trimmed, <<>>}

C3_Witness ==
    /\ phase = "retrimmed"
    /\ Len(samples) % window_size # 0
    /\ window_size >= 2
    /\ Len(trimmed) >= window_size
    /\ Len(trimmed) < Len(samples)
    /\ retrimmed = trimmed

\* C6: a non-empty sequence whose every sample has magnitude above the linear
\* threshold is returned unchanged, for every window size.
C6_AllLoudIdentity ==
    (phase # "input" /\ Len(samples) > 0 /\ AllAbove(samples, threshold_db))
        => trimmed = samples

C6_Witness ==
    /\ phase = "trimmed"
    /\ Len(samples) >= 3
    /\ window_size >= 2
    /\ Len(samples) % window_size # 0
    /\ AllAbove(samples, threshold_db)
    /\ trimmed = samples

\* C7: an all-zero sequence of any length trims to the empty sequence, for
\* every window size and every threshold with a positive linear value.
C7_AllSilenceEmpty ==
    (phase # "input" /\ AllZero(samples)) => trimmed = <<>>

C7_Witness ==
    /\ phase = "trimmed"
    /\ Len(samples) = 5
    /\ window_size = 2
    /\ AllZero(samples)
    /\ trimmed = <<>>

\* C8 as stated: if a window of the forward scan or of the backward scan has
\* RMS above the threshold, the result is a non-empty sub-range [start, end).
C8_AnyLoudWindowNonEmpty ==
    ( /\ phase # "input"
      /\ \/ loud_forward(samples, threshold_db, window_size) # {}
         \/ loud_backward(samples, threshold_db, window_size) # {} )
    => /\ trimmed # <<>>
       /\ \E a \in 0..Len(samples), b \in 0..Len(samples) :
             a < b /\ trimmed = Slice(samples, a, b)

\* C8 amended: the result is non-empty exactly when a forward-scan window
\* starting at i and a backward-scan window ending at j are both above the
\* threshold with i < j; it is then samples[start..end) for the least such i
\* and the greatest such j.  Loud windows on one grid only, or with i >= j,
\* give the empty sequence.
C8_NonEmptyIffOrderedLoudWindows ==
    phase # "input" =>
        LET lf == loud_forward(samples, threshold_db, window_size)
            lb == loud_backward(samples, threshold_db, window_size)
        IN /\ trimmed # <<>> <=> (\E i \in lf, j \in lb : i < j)
           /\ trimmed # <<>> => /\ Min(lf) < Max(lb)
                                /\ trimmed = Slice(samples, Min(lf), Max(lb))

C8_Witness ==
    /\ phase = "trimmed"
    /\ loud_forward(samples, threshold_db, window_size) # {}
    /\ loud_backward(samples, threshold_db, window_size) # {}
    /\ trimmed # <<>>
    /\ Len(trimmed) < Len(samples)

\* C9: for thresholds t1 <= t2 the range returned at t2 lies inside the range
\* returned at t1, and an empty result at t1 gives an empty result at t2.
C9_HigherThresholdTrimsMore ==
    phase # "input" =>
        \A t2 \in Thresholds :
            threshold_db <= t2 =>
                LET r2 == trim_samples(samples, t2, window_size)
                    start1 == start_trim(samples, threshold_db, window_size)
                    end1 == end_trim(samples, threshold_db, window_size)
                    start2 == start_trim(samples, t2, window_size)
                    end2 == end_trim(samples, t2, window_size)
                IN /\ trimmed = <<>> => r2 = <<>>
                   /\ r2 # <<>> => /\ start1 <= start2
                                   /\ end2 <= end1
                                   /\ r2 = Slice(trimmed, start2 - start1, end2 - start1)

C9_Witness ==
    /\ phase = "trimmed"
    /\ \E t2 \in Thresholds :
          /\ threshold_db < t2
          /\ trim_samples(samples, t2, window_size) # <<>>
          /\ Len(trim_samples(samples, t2, window_size)) < Len(trimmed)

\* C10: with window_size larger than the length of a non-empty sequence each
\* scan examines one non-empty window, the whole sequence; the result is the
\* whole input if its RMS is above the threshold and empty otherwise.
C10_OversizedWindow ==
    (phase # "input" /\ Len(samples) > 0 /\ window_size > Len(samples)) =>
        /\ {forward_chunk(samples, window_size, i) :
                i \in forward_grid(Len(samples), window_size)} = {samples}
        /\ {backward_chunk(samples, window_size, i) :
                i \in backward_grid(Len(samples), window_size)} = {samples}
        /\ trimmed = IF IsLoud(samples, threshold_db) THEN samples ELSE <<>>

C10_Witness ==
    /\ phase = "trimmed"
    /\ Len(samples) = 3
    /\ window_size = 5
    /\ IsLoud(samples, threshold_db)
    /\ ~AllAbove(samples, threshold_db)
    /\ trimmed = samples

====
